---- MODULE Spec2Model ----
(***************************************************************************)
(* Model of the body-measurement bot (src/main.py): the per-user record    *)
(* store (UserStatsManager), the progress / history computations and the   *)
(* message handlers with their authorization gate.                          *)
(*                                                                         *)
(* Measurements are fixed-point numbers in tenths (70.5 kg is 705).  Time  *)
(* is counted in ticks, TicksPerSecond ticks to the second; a record's     *)
(* "date" is the second-precision string strftime produces, modelled as a  *)
(* number of whole seconds.                                                *)
(***************************************************************************)
EXTENDS Integers, Sequences, FiniteSets, TLC

VARIABLES files, now, pc, local, lastOp, adds, user_input_state, ADMIN_USER_ID, config, out

vars == <<files, now, pc, local, lastOp, adds, user_input_state, ADMIN_USER_ID, config, out>>

(***************************************************************************)
(* Bounds of the model.                                                    *)
(***************************************************************************)
TicksPerSecond == 2
InitDay == 100
MaxSubTicks == 2
StoreInitHist == 1
MaxAdds == 2
MaxBotAdds == 1
MaxHist == 11

(***************************************************************************)
(* Program constants.                                                      *)
(***************************************************************************)
SecondsPerDay == 86400
DisplayCap == 10
WeightMin == 300
WeightMax == 3000
WaistMin == 400
WaistMax == 2000
HipsMin == 500
HipsMax == 2000
ChestMin == 500
ChestMax == 2000

DayTicks == SecondsPerDay * TicksPerSecond

UserIds == {101, 202}
Callers == {"c1", "c2"}

(***************************************************************************)
(* Time: datetime.now() has sub-second resolution, strftime keeps whole    *)
(* seconds, strptime reads them back as an instant with no fraction.       *)
(***************************************************************************)
FormatDate(t) == t \div TicksPerSecond

ParseDate(d) == d * TicksPerSecond

(***************************************************************************)
(* json.dump / json.load of one number: the text holds the integer part    *)
(* and the fraction digit ("70.5"), the parser puts them together again.   *)
(***************************************************************************)
DumpNumber(x) == <<x \div 10, x % 10>>

LoadNumber(s) == s[1] * 10 + s[2]

DumpRecord(r) ==
    [date |-> r.date, weight |-> DumpNumber(r.weight), waist |-> DumpNumber(r.waist),
     hips |-> DumpNumber(r.hips), chest |-> DumpNumber(r.chest)]

LoadRecord(s) ==
    [date |-> s.date, weight |-> LoadNumber(s.weight), waist |-> LoadNumber(s.waist),
     hips |-> LoadNumber(s.hips), chest |-> LoadNumber(s.chest)]

DumpRecords(rs) == [i \in 1..Len(rs) |-> DumpRecord(rs[i])]

LoadRecords(ss) == [i \in 1..Len(ss) |-> LoadRecord(ss[i])]

(***************************************************************************)
(* The persisted document of one user: absent, a well-formed JSON document *)
(* {"records": [...]}, or one of the damaged forms.                        *)
(*   truncated    the text stops early (json.JSONDecodeError)              *)
(*   undecodable  the bytes are not UTF-8 (UnicodeDecodeError)            *)
(*   noschema     well-formed JSON with no "records" member, such as {}    *)
(***************************************************************************)
Absent == [kind |-> "absent", records |-> <<>>]

Json(rs) == [kind |-> "json", records |-> DumpRecords(rs)]

Truncated == [kind |-> "truncated", records |-> <<>>]

Undecodable == [kind |-> "undecodable", records |-> <<>>]

NoSchema == [kind |-> "noschema", records |-> <<>>]

ReadFaults == {"none", "read_error"}

WriteFaults == {"none", "open_error", "write_error"}

\* One storage fault at most during the handling of a message.
Faults == ReadFaults \cup WriteFaults

ReadFault(io) == IF io \in ReadFaults THEN io ELSE "none"

WriteFault(io) == IF io \in WriteFaults THEN io ELSE "none"

EmptyHistory == [raised |-> FALSE, hasRecords |-> TRUE, records |-> <<>>]

\* UserStatsManager.load_user_data: the value returned, or the exception that
\* leaves the method (raised).
load_user_data(doc, rf) ==
    IF doc.kind = "absent" THEN EmptyHistory
    ELSE IF rf = "read_error" THEN EmptyHistory
    ELSE IF doc.kind = "json"
         THEN [raised |-> FALSE, hasRecords |-> TRUE, records |-> LoadRecords(doc.records)]
    ELSE IF doc.kind = "truncated" THEN EmptyHistory
    ELSE IF doc.kind = "noschema"
         THEN [raised |-> FALSE, hasRecords |-> FALSE, records |-> <<>>]
    ELSE [raised |-> TRUE, hasRecords |-> FALSE, records |-> <<>>]

\* A save that adds the last record to whatever the document holds now.
save_user_data_merging(doc, records, wf) ==
    IF wf # "none" THEN [ok |-> FALSE, doc |-> doc]
    ELSE [ok |-> TRUE,
          doc |-> [kind |-> "json",
                   records |-> Append(doc.records, DumpRecord(records[Len(records)]))]]

\* UserStatsManager.save_user_data: open(file, 'w') empties the document, then
\* json.dump writes the text; an IOError at either point is caught.
save_user_data(doc, records, wf) ==
    IF wf = "open_error" THEN [ok |-> FALSE, doc |-> doc]
    ELSE IF wf = "write_error" THEN [ok |-> FALSE, doc |-> Truncated]
    ELSE [ok |-> TRUE, doc |-> Json(records)]

\* The record add_record builds (lines 99-105).
new_record(t, v) ==
    [date |-> FormatDate(t), weight |-> v[1], waist |-> v[2], hips |-> v[3], chest |-> v[4]]

\* Does data["records"] raise on what load returned?
NoRecordsMember(data) == data.raised \/ ~data.hasRecords

\* UserStatsManager.add_record as one call.
add_record(doc, v, t, rf, wf) ==
    LET data == load_user_data(doc, rf) IN
    IF NoRecordsMember(data) THEN [raised |-> TRUE, ok |-> FALSE, doc |-> doc]
    ELSE LET s == save_user_data(doc, Append(data.records, new_record(t, v)), wf)
         IN [raised |-> FALSE, ok |-> s.ok, doc |-> s.doc]

\* A latest that reads the first record, not the last.
get_latest_record_first(doc, rf) ==
    LET data == load_user_data(doc, rf) IN
    IF NoRecordsMember(data) THEN [raised |-> TRUE, ret |-> <<>>]
    ELSE IF data.records # <<>> THEN [raised |-> FALSE, ret |-> <<data.records[1]>>]
    ELSE [raised |-> FALSE, ret |-> <<>>]

\* UserStatsManager.get_latest_record: <<>> is None.
get_latest_record(doc, rf) ==
    LET data == load_user_data(doc, rf) IN
    IF NoRecordsMember(data) THEN [raised |-> TRUE, ret |-> <<>>]
    ELSE IF data.records # <<>>
         THEN [raised |-> FALSE, ret |-> <<data.records[Len(data.records)]>>]
    ELSE [raised |-> FALSE, ret |-> <<>>]

\* A previous that reads the last record again.
get_previous_record_last(doc, rf) ==
    LET data == load_user_data(doc, rf) IN
    IF NoRecordsMember(data) THEN [raised |-> TRUE, ret |-> <<>>]
    ELSE IF Len(data.records) >= 2
         THEN [raised |-> FALSE, ret |-> <<data.records[Len(data.records)]>>]
    ELSE [raised |-> FALSE, ret |-> <<>>]

\* UserStatsManager.get_previous_record.
get_previous_record(doc, rf) ==
    LET data == load_user_data(doc, rf) IN
    IF NoRecordsMember(data) THEN [raised |-> TRUE, ret |-> <<>>]
    ELSE IF Len(data.records) >= 2
         THEN [raised |-> FALSE, ret |-> <<data.records[Len(data.records) - 1]>>]
    ELSE [raised |-> FALSE, ret |-> <<>>]

\* The loop of get_records_by_period (lines 134-137) over the first i records.
RECURSIVE FilterFrom(_, _, _)
FilterFrom(records, i, start_date) ==
    IF i = 0 THEN <<>>
    ELSE LET rest == FilterFrom(records, i - 1, start_date)
             record_date == ParseDate(records[i].date)
         IN IF record_date >= start_date THEN Append(rest, records[i]) ELSE rest

\* The loop with > where the code has >=.
RECURSIVE FilterFromStrict(_, _, _)
FilterFromStrict(records, i, start_date) ==
    IF i = 0 THEN <<>>
    ELSE LET rest == FilterFromStrict(records, i - 1, start_date)
             record_date == ParseDate(records[i].date)
         IN IF record_date > start_date THEN Append(rest, records[i]) ELSE rest

get_records_by_period_strict(doc, days, t, rf) ==
    LET data == load_user_data(doc, rf) IN
    IF NoRecordsMember(data) THEN [raised |-> TRUE, ret |-> <<>>]
    ELSE IF data.records = <<>> THEN [raised |-> FALSE, ret |-> <<>>]
    ELSE [raised |-> FALSE,
          ret |-> FilterFromStrict(data.records, Len(data.records), t - days * DayTicks)]

\* UserStatsManager.get_records_by_period.
get_records_by_period(doc, days, t, rf) ==
    LET data == load_user_data(doc, rf) IN
    IF NoRecordsMember(data) THEN [raised |-> TRUE, ret |-> <<>>]
    ELSE IF data.records = <<>> THEN [raised |-> FALSE, ret |-> <<>>]
    ELSE [raised |-> FALSE,
          ret |-> FilterFrom(data.records, Len(data.records), t - days * DayTicks)]

(***************************************************************************)
(* Histories the store holds at start: n earlier appends, the k-th most    *)
(* recent one AgeDays(k) days before the initial instant.                  *)
(***************************************************************************)
AgeDays(k) ==
    CASE k = 0 -> 0 [] k = 1 -> 1 [] k = 2 -> 7 [] k = 3 -> 8
      [] k = 4 -> 30 [] k = 5 -> 31 [] OTHER -> 84 + k

SampleRecord(k) ==
    [date |-> (InitDay - AgeDays(k)) * SecondsPerDay,
     weight |-> 705 + 5 * k, waist |-> 800 + 10 * k, hips |-> 950, chest |-> 900 - 10 * k]

SampleHistory(n) == [i \in 1..n |-> SampleRecord(n - i)]

InitDoc(n) == IF n = 0 THEN Absent ELSE Json(SampleHistory(n))

InitNow == InitDay * DayTicks

NoPrev == [op |-> "none", user |-> 0, arg |-> <<>>, ok |-> FALSE]

NoOp == [op |-> "none", user |-> 0, arg |-> <<>>, ret |-> <<>>, ok |-> FALSE,
         raised |-> FALSE, stale |-> FALSE, prev |-> NoPrev]

\* What the trace keeps of a completed store call: lastOp, and in lastOp.prev the
\* call completed before it.
Completed(op, u, arg, ret, ok, raised, stale) ==
    [op |-> op, user |-> u, arg |-> arg, ret |-> ret, ok |-> ok, raised |-> raised,
     stale |-> stale,
     prev |-> [op |-> lastOp.op, user |-> lastOp.user, arg |-> lastOp.arg, ok |-> lastOp.ok]]

Idle == [user |-> 0, arg |-> <<>>, records |-> <<>>, stale |-> FALSE]

\* The front end not running.
NoOut == [sender |-> 0, text |-> <<>>, at |-> 0, gate |-> "none", routed |-> "none", ops |-> {},
          reply |-> "none", shown |-> <<>>, deltas |-> <<>>, marks |-> <<>>, total |-> 0]

NoConfig == [OPEN_ACCESS |-> TRUE, ADMIN_ONLY_MODE |-> FALSE, ALLOWED_USER_IDS |-> {},
             ALLOWED_USERNAMES |-> {}]

BotIdle ==
    /\ user_input_state = {}
    /\ ADMIN_USER_ID = 0
    /\ config = NoConfig
    /\ out = NoOut

bot == <<user_input_state, ADMIN_USER_ID, config, out>>

(***************************************************************************)
(* The clock.                                                              *)
(***************************************************************************)
TickSub ==
    /\ now % DayTicks < MaxSubTicks
    /\ now' = now + 1
    /\ UNCHANGED <<files, pc, local, lastOp, adds, user_input_state, ADMIN_USER_ID, config, out>>

(***************************************************************************)
(* The record store called by concurrent callers.  add_record is a load    *)
(* followed by a save with nothing that excludes another caller between    *)
(* them; the read operations are one load each.  local[c].stale records    *)
(* that another caller saved the same user's document after c loaded it.   *)
(***************************************************************************)
StoreInputs == {<<300, 400, 500, 500>>, <<3000, 2000, 2000, 2000>>, <<705, 800, 950, 900>>}

StoreDays == {0, 7}

\* add_record, lines 96-107: load, build the record, append it in memory.
AddLoad(c, u, v, rf) ==
    /\ pc[c] = "idle"
    /\ adds < MaxAdds
    /\ LET data == load_user_data(files[u], rf) IN
       IF NoRecordsMember(data)
       THEN /\ lastOp' = Completed("add_record", u, v, <<>>, FALSE, TRUE, FALSE)
            /\ UNCHANGED <<pc, local, adds>>
       ELSE /\ pc' = [pc EXCEPT ![c] = "save"]
            /\ local' = [local EXCEPT ![c] =
                           [user |-> u, arg |-> v, stale |-> FALSE,
                            records |-> Append(data.records, new_record(now, v))]]
            /\ adds' = adds + 1
            /\ UNCHANGED lastOp
    /\ UNCHANGED <<files, now>>
    /\ UNCHANGED bot

\* add_record, line 108: save what was built and return save's result.
AddSave(c, wf) ==
    /\ pc[c] = "save"
    /\ LET u == local[c].user
           s == save_user_data(files[u], local[c].records, wf)
       IN /\ files' = [files EXCEPT ![u] = s.doc]
          /\ lastOp' = Completed("add_record", u, local[c].arg, <<>>, s.ok, FALSE,
                                 local[c].stale)
          /\ local' = [d \in Callers |->
                         IF d = c THEN Idle
                         ELSE IF pc[d] = "save" /\ local[d].user = u
                              THEN [local[d] EXCEPT !.stale = TRUE]
                         ELSE local[d]]
    /\ pc' = [pc EXCEPT ![c] = "idle"]
    /\ UNCHANGED <<now, adds>>
    /\ UNCHANGED bot

LoadCall(u, rf) ==
    /\ LET data == load_user_data(files[u], rf) IN
       lastOp' = Completed("load_user_data", u, <<>>, data.records,
                           ~data.raised /\ data.hasRecords, data.raised, FALSE)
    /\ UNCHANGED <<files, now, pc, local, adds>>
    /\ UNCHANGED bot

GetLatest(u, rf) ==
    /\ LET r == get_latest_record(files[u], rf) IN
       lastOp' = Completed("get_latest_record", u, <<>>, r.ret, ~r.raised, r.raised, FALSE)
    /\ UNCHANGED <<files, now, pc, local, adds>>
    /\ UNCHANGED bot

GetPrevious(u, rf) ==
    /\ LET r == get_previous_record(files[u], rf) IN
       lastOp' = Completed("get_previous_record", u, <<>>, r.ret, ~r.raised, r.raised, FALSE)
    /\ UNCHANGED <<files, now, pc, local, adds>>
    /\ UNCHANGED bot

GetByPeriod(u, days, rf) ==
    /\ LET r == get_records_by_period(files[u], days, now, rf) IN
       lastOp' = Completed("get_records_by_period", u, <<days>>, r.ret, ~r.raised,
                           r.raised, FALSE)
    /\ UNCHANGED <<files, now, pc, local, adds>>
    /\ UNCHANGED bot

StoreInit ==
    /\ \E n \in [UserIds -> 0..StoreInitHist] : files = [u \in UserIds |-> InitDoc(n[u])]
    /\ now = InitNow
    /\ pc = [c \in Callers |-> "idle"]
    /\ local = [c \in Callers |-> Idle]
    /\ lastOp = NoOp
    /\ adds = 0
    /\ BotIdle

StoreNext ==
    \/ \E c \in Callers, u \in UserIds, v \in StoreInputs : AddLoad(c, u, v, "none")
    \/ \E c \in Callers : AddSave(c, "none")
    \/ \E u \in UserIds : GetLatest(u, "none")

StoreSpec == StoreInit /\ [][StoreNext]_vars

(***************************************************************************)
(* The record store called by one caller at a time, over storage that can  *)
(* fail a read or a write and over documents in any condition.             *)
(***************************************************************************)
FaultInputs == {<<705, 800, 950, 900>>}

FaultDocs == {InitDoc(n) : n \in 0..StoreInitHist + 1} \cup {Truncated, Undecodable, NoSchema}

FaultInit ==
    /\ files \in [UserIds -> FaultDocs]
    /\ now = InitNow
    /\ pc = [c \in Callers |-> "idle"]
    /\ local = [c \in Callers |-> Idle]
    /\ lastOp = NoOp
    /\ adds = 0
    /\ BotIdle

FaultNext ==
    \/ \E u \in UserIds, v \in FaultInputs, rf \in ReadFaults : AddLoad("c1", u, v, rf)
    \/ \E wf \in WriteFaults : AddSave("c1", wf)
    \/ \E u \in UserIds, rf \in ReadFaults : LoadCall(u, rf)
    \/ \E u \in UserIds, rf \in ReadFaults : GetLatest(u, rf)
    \/ \E u \in UserIds, rf \in ReadFaults : GetPrevious(u, rf)
    \/ \E u \in UserIds, d \in StoreDays, rf \in ReadFaults : GetByPeriod(u, d, rf)

FaultSpec == FaultInit /\ [][FaultNext]_vars

(***************************************************************************)
(* The front end.  A message is its sender and its text; a text is the     *)
(* sequence of its whitespace-separated tokens (what text.split() gives),  *)
(* the menu buttons being fixed texts.                                     *)
(***************************************************************************)
Senders == {[id |-> 101, username |-> "Alice"], [id |-> 202, username |-> ""]}

\* str.lower() on the handles that occur.
Lower(h) == CASE h = "Alice" -> "alice" [] h = "ALICE" -> "alice" [] OTHER -> h

BTN_ADD == <<"[add]", "Dobavit", "izmereniya">>
BTN_PROGRESS == <<"[progress]", "Pokazat", "progress">>
BTN_HISTORY == <<"[history]", "Istoriya", "za", "period">>
BTN_WEEK == <<"[period]", "Za", "nedelyu">>
BTN_MONTH == <<"[period]", "Za", "mesyac">>
BTN_3MONTHS == <<"[period]", "Za", "3", "mesyaca">>
BTN_ALL == <<"[period]", "Za", "vsyo", "vremya">>
BTN_HELP == <<"[info]", "Pomoshch">>
BTN_BACK == <<"[back]", "Nazad">>

Buttons == {BTN_ADD, BTN_PROGRESS, BTN_HISTORY, BTN_WEEK, BTN_MONTH, BTN_3MONTHS, BTN_ALL,
            BTN_HELP, BTN_BACK}

\* float(token) for the tokens that occur, in tenths.
FloatValue ==
    [tok \in {"70.5", "80", "95", "90", "69.0", "79", "89", "30", "40", "50", "300", "200",
              "29.9", "300.1", "39.9", "200.1", "49.9", "3"} |->
        CASE tok = "70.5" -> 705 [] tok = "80" -> 800 [] tok = "95" -> 950 [] tok = "90" -> 900
          [] tok = "69.0" -> 690 [] tok = "79" -> 790 [] tok = "89" -> 890
          [] tok = "30" -> 300 [] tok = "40" -> 400 [] tok = "50" -> 500
          [] tok = "300" -> 3000 [] tok = "200" -> 2000
          [] tok = "29.9" -> 299 [] tok = "300.1" -> 3001 [] tok = "39.9" -> 399
          [] tok = "200.1" -> 2001 [] tok = "49.9" -> 499 [] tok = "3" -> 30]

\* float(token): a number, the not-a-number value, or ValueError (ok is FALSE).
Float(tok) ==
    IF tok \in DOMAIN FloatValue THEN [ok |-> TRUE, nan |-> FALSE, v |-> FloatValue[tok]]
    ELSE IF tok = "nan" THEN [ok |-> TRUE, nan |-> TRUE, v |-> 0]
    ELSE [ok |-> FALSE, nan |-> FALSE, v |-> 0]

\* lo <= x <= hi on floats: false for the not-a-number value.
Between(lo, x, hi) == ~x.nan /\ lo <= x.v /\ x.v <= hi

\* Submissions on the bounds, and the two of the documented example.
BoundTexts == {<<"30", "40", "50", "50">>, <<"300", "200", "200", "200">>}

ExampleTexts == {<<"70.5", "80", "95", "90">>, <<"69.0", "79", "95", "89">>}

InvalidTexts == {<<"70.5", "80", "95">>, <<"70.5", "80", "95", "90", "90">>,
                 <<"70.5", "abc", "95", "90">>, <<"nan", "80", "95", "90">>,
                 <<"29.9", "80", "95", "90">>, <<"300.1", "80", "95", "90">>,
                 <<"70.5", "39.9", "95", "90">>, <<"70.5", "200.1", "95", "90">>,
                 <<"70.5", "80", "49.9", "90">>, <<"70.5", "80", "200.1", "90">>,
                 <<"70.5", "80", "95", "49.9">>, <<"70.5", "80", "95", "200.1">>}

Texts == Buttons \cup BoundTexts \cup InvalidTexts

Commands == {<<"/start">>, <<"/help">>, <<"/id">>}

\* The settings config.py can give (lines 35-57): open access (the default),
\* admin-only with no admin yet, an allow-list of ids, an allow-list of handles.
Configs ==
    {NoConfig,
     [OPEN_ACCESS |-> FALSE, ADMIN_ONLY_MODE |-> TRUE, ALLOWED_USER_IDS |-> {},
      ALLOWED_USERNAMES |-> {}],
     [OPEN_ACCESS |-> FALSE, ADMIN_ONLY_MODE |-> FALSE, ALLOWED_USER_IDS |-> {202},
      ALLOWED_USERNAMES |-> {}],
     [OPEN_ACCESS |-> FALSE, ADMIN_ONLY_MODE |-> FALSE, ALLOWED_USER_IDS |-> {},
      ALLOWED_USERNAMES |-> {"ALICE"}]}

\* is_user_authorized: the decision and ADMIN_USER_ID after it (0 is None).
is_user_authorized(s, admin) ==
    IF config.OPEN_ACCESS THEN [allow |-> TRUE, admin |-> admin]
    ELSE IF config.ADMIN_ONLY_MODE
         THEN IF admin = 0 THEN [allow |-> TRUE, admin |-> s.id]
              ELSE [allow |-> s.id = admin, admin |-> admin]
    ELSE IF s.id \in config.ALLOWED_USER_IDS THEN [allow |-> TRUE, admin |-> admin]
    ELSE IF s.username # ""
            /\ Lower(s.username) \in {Lower(h) : h \in config.ALLOWED_USERNAMES}
         THEN [allow |-> TRUE, admin |-> admin]
    ELSE [allow |-> FALSE, admin |-> admin]

\* What a handler leaves: the documents, the input-state dictionary (the users
\* waiting for measurements), the budget of add_record calls, and in o what the
\* handling did (the store methods called, the reply sent).
Outcome(f, st, n, o) == [files |-> f, state |-> st, adds |-> n, o |-> o]

Reply(reply, ops, shown, deltas, marks, total) ==
    [reply |-> reply, ops |-> ops, shown |-> shown, deltas |-> deltas, marks |-> marks,
     total |-> total]

Plain(reply) == Reply(reply, {}, <<>>, <<>>, <<>>, 0)

\* format_change (lines 334-340): the sign shown for a difference.
format_change(value) == IF value > 0 THEN "up" ELSE IF value < 0 THEN "down" ELSE "same"

Differences(a, b) ==
    <<a.weight - b.weight, a.waist - b.waist, a.hips - b.hips, a.chest - b.chest>>

\* show_progress, lines 300-349.
show_progress(s, rf1, rf2) ==
    LET latest == get_latest_record(files[s.id], rf1)
        previous == get_previous_record(files[s.id], rf2)
        ops == {"get_latest_record", "get_previous_record", "load_user_data"}
    IN IF latest.raised \/ previous.raised
       THEN Reply("raised", ops, <<>>, <<>>, <<>>, 0)
       ELSE IF latest.ret = <<>> THEN Reply("no_data", ops, <<>>, <<>>, <<>>, 0)
       ELSE IF previous.ret # <<>>
            THEN LET d == Differences(latest.ret[1], previous.ret[1])
                 IN Reply("progress", ops, latest.ret, d,
                          [i \in 1..4 |-> format_change(d[i])], 0)
       ELSE Reply("progress", ops, latest.ret, <<>>, <<>>, 0)

\* A summary whose changes run over the displayed records only.
WindowSummaryOfDisplayed(records, ops) ==
    IF records = <<>> THEN Reply("no_records", ops, <<>>, <<>>, <<>>, 0)
    ELSE LET n == Len(records)
             display_records ==
                 IF n > DisplayCap THEN SubSeq(records, n - DisplayCap + 1, n) ELSE records
             changes == IF n >= 2 THEN Differences(records[n], display_records[1]) ELSE <<>>
         IN Reply("history", ops, display_records, changes, <<>>,
                  IF n > DisplayCap THEN n ELSE 0)

\* show_history_period, lines 379-417: the summary of the records of a window.
WindowSummary(records, ops) ==
    IF records = <<>> THEN Reply("no_records", ops, <<>>, <<>>, <<>>, 0)
    ELSE LET n == Len(records)
             display_records ==
                 IF n > DisplayCap THEN SubSeq(records, n - DisplayCap + 1, n) ELSE records
             changes == IF n >= 2 THEN Differences(records[n], records[1]) ELSE <<>>
         IN Reply("history", ops, display_records, changes, <<>>,
                  IF n > DisplayCap THEN n ELSE 0)

\* show_history_period, lines 369-377: the records of the window.
show_history_period(s, days, rf) ==
    IF days = -1
    THEN LET data == load_user_data(files[s.id], rf) IN
         IF NoRecordsMember(data)
         THEN Reply("raised", {"load_user_data"}, <<>>, <<>>, <<>>, 0)
         ELSE WindowSummary(data.records, {"load_user_data"})
    ELSE LET r == get_records_by_period(files[s.id], days, now, rf)
             ops == {"get_records_by_period", "load_user_data"}
         IN IF r.raised THEN Reply("raised", ops, <<>>, <<>>, <<>>, 0)
            ELSE WindowSummary(r.ret, ops)

\* A validation that forgets the chest.
ParseMeasurementsNoChest(values) ==
    IF Len(values) # 4 THEN [ok |-> FALSE, v |-> <<>>]
    ELSE LET x == [i \in 1..4 |-> Float(values[i])] IN
         IF \E i \in 1..4 : ~x[i].ok THEN [ok |-> FALSE, v |-> <<>>]
         ELSE IF ~Between(WeightMin, x[1], WeightMax) THEN [ok |-> FALSE, v |-> <<>>]
         ELSE IF ~Between(WaistMin, x[2], WaistMax) THEN [ok |-> FALSE, v |-> <<>>]
         ELSE IF ~Between(HipsMin, x[3], HipsMax) THEN [ok |-> FALSE, v |-> <<>>]
         ELSE [ok |-> TRUE, v |-> [i \in 1..4 |-> x[i].v]]

\* process_measurements_input, lines 426-440: the four values, or the
\* ValueError raised on the way (ok is FALSE).
ParseMeasurements(values) ==
    IF Len(values) # 4 THEN [ok |-> FALSE, v |-> <<>>]
    ELSE LET x == [i \in 1..4 |-> Float(values[i])] IN
         IF \E i \in 1..4 : ~x[i].ok THEN [ok |-> FALSE, v |-> <<>>]
         ELSE IF ~Between(WeightMin, x[1], WeightMax) THEN [ok |-> FALSE, v |-> <<>>]
         ELSE IF ~Between(WaistMin, x[2], WaistMax) THEN [ok |-> FALSE, v |-> <<>>]
         ELSE IF ~Between(HipsMin, x[3], HipsMax) THEN [ok |-> FALSE, v |-> <<>>]
         ELSE IF ~Between(ChestMin, x[4], ChestMax) THEN [ok |-> FALSE, v |-> <<>>]
         ELSE [ok |-> TRUE, v |-> [i \in 1..4 |-> x[i].v]]

\* The exception that leaves a store method, when one does: UnicodeDecodeError
\* out of load_user_data (a ValueError), or else the KeyError or TypeError of
\* data["records"].
RaisesValueError(doc, rf) == load_user_data(doc, rf).raised

\* process_measurements_input, lines 421-487: except ValueError (line 473)
\* catches the validation errors and a UnicodeDecodeError of the store; any
\* other exception leaves the handler before lines 486-487.
process_measurements_input(s, text, rf1, rf2, wf) ==
    LET m == ParseMeasurements(text)
        cleared == user_input_state \ {s.id}
    IN IF ~m.ok THEN Outcome(files, cleared, adds, Plain("input_error"))
       ELSE LET a == add_record(files[s.id], m.v, now, rf1, wf)
                f == [files EXCEPT ![s.id] = a.doc]
                previous == get_previous_record(a.doc, rf2)
                addOps == {"add_record", "load_user_data", "save_user_data"}
            IN IF a.raised
               THEN IF RaisesValueError(files[s.id], rf1)
                    THEN Outcome(f, cleared, adds + 1,
                                 Reply("input_error", {"add_record", "load_user_data"},
                                       <<>>, <<>>, <<>>, 0))
                    ELSE Outcome(f, user_input_state, adds + 1,
                                 Reply("raised", {"add_record", "load_user_data"},
                                       <<>>, <<>>, <<>>, 0))
               ELSE IF ~a.ok
                    THEN Outcome(f, cleared, adds + 1,
                                 Reply("save_failed", addOps, <<>>, <<>>, <<>>, 0))
               ELSE IF previous.raised
                    THEN Outcome(f, IF RaisesValueError(a.doc, rf2) THEN cleared
                                    ELSE user_input_state,
                                 adds + 1,
                                 Reply(IF RaisesValueError(a.doc, rf2) THEN "input_error"
                                       ELSE "raised",
                                       addOps \cup {"get_previous_record"},
                                       <<>>, <<>>, <<>>, 0))
               ELSE Outcome(f, cleared, adds + 1,
                            Reply("saved", addOps \cup {"get_previous_record"},
                                  <<new_record(now, m.v)>>,
                                  IF previous.ret # <<>>
                                  THEN <<m.v[1] - previous.ret[1].weight,
                                         m.v[2] - previous.ret[1].waist>>
                                  ELSE <<>>,
                                  <<>>, 0))

\* handle_message, lines 500-527: the handler a menu text is routed to.
Route(text) ==
    CASE text = BTN_ADD -> "add_measurements"
      [] text = BTN_PROGRESS -> "show_progress"
      [] text = BTN_HISTORY -> "show_history_menu"
      [] text \in {BTN_WEEK, BTN_MONTH, BTN_3MONTHS, BTN_ALL} -> "show_history_period"
      [] text = BTN_HELP -> "help_command"
      [] text = BTN_BACK -> "main_menu"
      [] OTHER -> "unknown"

PeriodDays(text) ==
    CASE text = BTN_WEEK -> 7 [] text = BTN_MONTH -> 30 [] text = BTN_3MONTHS -> 90
      [] OTHER -> -1

\* handle_message below its decorator (lines 492-527), the decorators of the
\* handlers it calls included: admin is ADMIN_USER_ID after the outer check.
handle_message(s, text, admin, rf1, rf2, wf) ==
    IF s.id \in user_input_state
    THEN process_measurements_input(s, text, rf1, rf2, wf)
    ELSE LET to == Route(text)
             inner == is_user_authorized(s, admin)
         IN IF to \in {"main_menu", "unknown"}
            THEN Outcome(files, user_input_state, adds, Plain(to))
            ELSE IF ~inner.allow
                 THEN Outcome(files, user_input_state, adds, Plain("unauthorized"))
            ELSE IF to = "add_measurements"
                 THEN Outcome(files, user_input_state \cup {s.id}, adds, Plain("instruction"))
            ELSE IF to = "show_progress"
                 THEN Outcome(files, user_input_state, adds, show_progress(s, rf1, rf2))
            ELSE IF to = "show_history_period"
                 THEN Outcome(files, user_input_state, adds,
                              show_history_period(s, PeriodDays(text), rf1))
            ELSE Outcome(files, user_input_state, adds, Plain(to))

\* The out record of a handled message.
Observed(s, text, gate, routed, r) ==
    [sender |-> s.id, text |-> text, at |-> now, gate |-> gate, routed |-> routed,
     ops |-> r.ops,
     reply |-> r.reply, shown |-> r.shown, deltas |-> r.deltas, marks |-> r.marks,
     total |-> r.total]

\* A decorator that lets everybody in.
authorization_required_open(s) == [allow |-> TRUE, admin |-> ADMIN_USER_ID]

\* authorization_required (lines 176-196) around a handler: the check, the
\* refusal, or the handler's outcome.
authorization_required(s) == is_user_authorized(s, ADMIN_USER_ID)

\* A text message that is no command: the decorated handle_message.
HandleMessage(s, text, rf1, rf2, wf) ==
    LET g == authorization_required(s)
        routed == IF s.id \in user_input_state THEN "process_measurements_input"
                  ELSE Route(text)
        r == IF g.allow THEN handle_message(s, text, g.admin, rf1, rf2, wf)
             ELSE Outcome(files, user_input_state, adds, Plain("unauthorized"))
    IN /\ r.adds <= MaxBotAdds
       /\ files' = r.files
       /\ user_input_state' = r.state
       /\ adds' = r.adds
       /\ ADMIN_USER_ID' = g.admin
       /\ out' = Observed(s, text, IF g.allow THEN "allow" ELSE "deny",
                         IF g.allow THEN routed ELSE "none", r.o)
       /\ UNCHANGED <<now, pc, local, lastOp, config>>

\* /start and /help: decorated handlers that only reply.
ReplyCommand(s, text) ==
    LET g == authorization_required(s) IN
    /\ text \in {<<"/start">>, <<"/help">>}
    /\ ADMIN_USER_ID' = g.admin
    /\ out' = Observed(s, text, IF g.allow THEN "allow" ELSE "deny",
                      IF g.allow THEN text[1] ELSE "none",
                      IF g.allow THEN Plain(IF text = <<"/start">> THEN "welcome" ELSE "help_command")
                      ELSE Plain("unauthorized"))
    /\ UNCHANGED <<files, now, pc, local, lastOp, adds, user_input_state, config>>

\* /id: get_my_id has no decorator.
get_my_id(s) ==
    /\ out' = Observed(s, <<"/id">>, "none", "/id", Plain("id_info"))
    /\ UNCHANGED <<files, now, pc, local, lastOp, adds, user_input_state, ADMIN_USER_ID,
                   config>>

StoreIdle ==
    /\ pc = [c \in Callers |-> "idle"]
    /\ local = [c \in Callers |-> Idle]
    /\ lastOp = NoOp
    /\ adds = 0

\* The bot right after start: no document yet, nobody waiting for input.
Init ==
    /\ files = [u \in UserIds |-> Absent]
    /\ now = InitNow
    /\ StoreIdle
    /\ user_input_state = {}
    /\ ADMIN_USER_ID = 0
    /\ config \in Configs
    /\ out = NoOut

Next ==
    \/ \E s \in Senders, text \in Texts, io \in Faults :
          HandleMessage(s, text, ReadFault(io), ReadFault(io), WriteFault(io))
    \/ \E s \in Senders, text \in Commands : ReplyCommand(s, text)
    \/ \E s \in Senders : get_my_id(s)

Spec == Init /\ [][Next]_vars

(***************************************************************************)
(* The bot over histories recorded earlier, with open access and storage   *)
(* that does not fail: the menu queries and the documented submissions.    *)
(***************************************************************************)
HistoryTexts == {BTN_ADD, BTN_PROGRESS, BTN_WEEK, BTN_MONTH, BTN_3MONTHS, BTN_ALL}
                    \cup ExampleTexts

HistorySenders == {s \in Senders : s.id = 101}

HistoryInit ==
    /\ \E n \in 0..MaxHist : files = [u \in UserIds |-> IF u = 101 THEN InitDoc(n) ELSE Absent]
    /\ now = InitNow
    /\ StoreIdle
    /\ user_input_state = {}
    /\ ADMIN_USER_ID = 0
    /\ config = NoConfig
    /\ out = NoOut

HistoryNext ==
    \/ \E s \in HistorySenders, text \in HistoryTexts :
          HandleMessage(s, text, "none", "none", "none")
    \/ TickSub

HistorySpec == HistoryInit /\ [][HistoryNext]_vars

(***************************************************************************)
(* The bot over documents it did not write itself: a history, a document   *)
(* that stops early, bytes that are not UTF-8, JSON without "records".     *)
(***************************************************************************)
DamagedDocs == {InitDoc(1), Truncated, Undecodable, NoSchema}

DamagedTexts == {BTN_ADD, BTN_PROGRESS, <<"70.5", "80", "95", "90">>, <<"70.5", "80", "95">>}

DamagedInit ==
    /\ files \in [UserIds -> DamagedDocs]
    /\ now = InitNow
    /\ StoreIdle
    /\ user_input_state = {}
    /\ ADMIN_USER_ID = 0
    /\ config = NoConfig
    /\ out = NoOut

DamagedNext ==
    \/ \E s \in Senders, text \in DamagedTexts, io \in Faults :
          HandleMessage(s, text, ReadFault(io), ReadFault(io), WriteFault(io))
    \/ \E s \in Senders, text \in Commands : ReplyCommand(s, text)
    \/ \E s \in Senders : get_my_id(s)

DamagedSpec == DamagedInit /\ [][DamagedNext]_vars

(***************************************************************************)
(* Properties of the record store.                                         *)
(***************************************************************************)
Fields(r) == <<r.weight, r.waist, r.hips, r.chest>>

IsPrefix(a, b) == Len(a) <= Len(b) /\ \A i \in 1..Len(a) : a[i] = b[i]

\* A get_latest_record completed right after a successful add_record for the
\* same user.
LatestAfterAdd ==
    /\ lastOp.op = "get_latest_record"
    /\ lastOp.prev.op = "add_record"
    /\ lastOp.prev.ok
    /\ lastOp.prev.user = lastOp.user

\* C1: when add_record has returned success, the get_latest_record that
\* immediately follows for the same user returns a record whose weight, waist,
\* hips and chest are the appended values, whatever the history was before.
C1_AppendThenLatest ==
    LatestAfterAdd =>
        /\ ~lastOp.raised
        /\ Len(lastOp.ret) = 1
        /\ Fields(lastOp.ret[1]) = lastOp.prev.arg

\* The case of C1 over a history that already held records.
C1_Witness ==
    /\ LatestAfterAdd
    /\ Len(lastOp.ret) = 1
    /\ Len(files[lastOp.user].records) >= 2

\* The step in which caller c's add_record saves and returns.
SaveStep(c) == pc[c] = "save" /\ pc'[c] = "idle"

\* Since caller c loaded, exactly one record was saved to the same document:
\* the order load, load, save, save, c being the second to save.
OneSavedSinceLoad(c) ==
    LET u == local[c].user
        mine == DumpRecords(local[c].records)
    IN /\ Len(files[u].records) = Len(mine)
       /\ \A i \in 1..Len(mine) - 1 : files[u].records[i] = mine[i]

\* C6: add_record is a load and a save with no lock between them.  Every save
\* returns success and overwrites the document with the saver's loaded history
\* plus its own record; in the order load, load, save, save the second save so
\* leaves one new record where two appends succeeded (the document does not
\* grow); a save with no writer of the same user since its load (appends for
\* different users included) keeps every record and adds one at the end; no
\* save touches another user's document.
C6_LostUpdate ==
    [][\A c \in Callers : SaveStep(c) =>
          LET u == local[c].user IN
          /\ lastOp'.ok
          /\ \A w \in UserIds \ {u} : files'[w] = files[w]
          /\ files'[u] = Json(local[c].records)
          /\ OneSavedSinceLoad(c) =>
                /\ local[c].stale
                /\ Len(files'[u].records) = Len(files[u].records)
          /\ ~local[c].stale =>
                /\ Len(files'[u].records) = Len(files[u].records) + 1
                /\ IsPrefix(files[u].records, files'[u].records)
                /\ Fields(LoadRecord(files'[u].records[Len(files'[u].records)]))
                       = local[c].arg]_vars

\* Two add_record calls for one user have both returned success, the second
\* one having loaded before the first one saved, and the document holds one
\* record.
C6_Witness ==
    /\ lastOp.op = "add_record"
    /\ Len(files[lastOp.user].records) = 1
    /\ lastOp.ok
    /\ lastOp.stale
    /\ lastOp.prev.op = "add_record"
    /\ lastOp.prev.ok
    /\ lastOp.prev.user = lastOp.user

\* C2: the persisted history of a user is append-only: every step leaves the
\* earlier record sequence a prefix of the later one, and an add_record that
\* returns success lengthens it by exactly one record.
C2_AppendOnly ==
    [][/\ \A u \in UserIds : IsPrefix(files[u].records, files'[u].records)
       /\ \A c \in Callers : (SaveStep(c) /\ lastOp'.ok) =>
             Len(files'[local[c].user].records) = Len(files[local[c].user].records) + 1]_vars

\* C3: save_user_data is atomic: after the call a load finds the full new
\* history (and the call returned true) or exactly what it found before the
\* call (and the call returned false), never a partly written or emptied
\* document.
C3_SaveAtomic ==
    [][\A c \in Callers : SaveStep(c) =>
          LET u == local[c].user IN
          \/ /\ lastOp'.ok
             /\ load_user_data(files'[u], "none").records = local[c].records
          \/ /\ ~lastOp'.ok
             /\ load_user_data(files'[u], "none") = load_user_data(files[u], "none")]_vars

\* C4: no record-store operation raises, whatever the state of the document,
\* and load_user_data returns the empty history for a damaged document.
C4_NeverRaises ==
    /\ ~lastOp.raised
    /\ (lastOp.op = "load_user_data"
        /\ files[lastOp.user].kind \in {"truncated", "undecodable", "noschema"})
       => (lastOp.ok /\ lastOp.ret = <<>>)

(***************************************************************************)
(* Properties of the progress and history computations.                    *)
(***************************************************************************)
\* The history persisted for user u, as parsed from the document.
History(u) == LoadRecords(files[u].records)

\* The records of rs whose timestamp is at or after t minus days days.
Since(rs, days, t) ==
    LET InWindow(r) == r.date * TicksPerSecond >= t - days * SecondsPerDay * TicksPerSecond
    IN SelectSeq(rs, InWindow)

C5Days == {-1, 0, 1, 7, 30, 90, 91}

\* The last handled message was a history query the gate let through.
HistoryQuery == out.gate = "allow" /\ out.routed = "show_history_period"

\* The records the window of the last history query covers.
QueriedRecords ==
    IF out.text = BTN_ALL THEN History(out.sender)
    ELSE Since(History(out.sender), PeriodDays(out.text), out.at)

\* C5: for every history and every window length N, get_records_by_period
\* returns exactly the records whose timestamp is >= now - N days, in their
\* original order; the all-time window of show_history_period works on the
\* full persisted sequence, unfiltered and in order.
C5_WindowExact ==
    /\ \A u \in UserIds, N \in C5Days :
          LET r == get_records_by_period(files[u], N, now, "none")
          IN ~r.raised /\ r.ret = Since(History(u), N, now)
    /\ (HistoryQuery /\ out.text = BTN_ALL) =>
          LET all == WindowSummary(History(out.sender), out.ops)
          IN /\ out.reply = all.reply
             /\ out.shown = all.shown
             /\ out.deltas = all.deltas
             /\ out.total = all.total

\* A week's query answered with part of the history, the oldest record shown
\* lying exactly on the window's edge.
C5_Witness ==
    /\ HistoryQuery
    /\ out.text = BTN_WEEK
    /\ out.reply = "history"
    /\ Len(out.shown) < Len(History(out.sender))
    /\ out.shown[1].date * TicksPerSecond = out.at - 7 * DayTicks

Sign(x) == IF x > 0 THEN "up" ELSE IF x < 0 THEN "down" ELSE "same"

\* C7: show_progress compares the last record with the second-to-last one, for
\* every history length: no record gives the no-data reply and no deltas, one
\* record gives that record and no comparison, two or more give for each field
\* latest.field - previous.field, shown as increase, decrease or no change.
C7_Progress ==
    (out.gate = "allow" /\ out.routed = "show_progress") =>
        LET rs == History(out.sender)
            n == Len(rs)
        IN /\ n = 0 => (out.reply = "no_data" /\ out.shown = <<>> /\ out.deltas = <<>>)
           /\ n = 1 => (out.reply = "progress" /\ out.shown = rs /\ out.deltas = <<>>
                        /\ out.marks = <<>>)
           /\ n >= 2 =>
                 /\ out.reply = "progress"
                 /\ out.shown = <<rs[n]>>
                 /\ out.deltas = <<rs[n].weight - rs[n - 1].weight,
                                   rs[n].waist - rs[n - 1].waist,
                                   rs[n].hips - rs[n - 1].hips,
                                   rs[n].chest - rs[n - 1].chest>>
                 /\ out.marks = [i \in 1..4 |-> Sign(out.deltas[i])]

\* The documented example: 70.5/80/95/90 then 69.0/79/95/89.
C7_Witness ==
    /\ out.routed = "show_progress"
    /\ out.deltas = <<-15, -10, 0, -10>>
    /\ out.marks = <<"down", "down", "same", "down">>

Min(a, b) == IF a < b THEN a ELSE b

\* C8: the summary of a window of n records with cap 10 displays the last
\* min(n, 10) records in order, notes the truncation (with the total n) iff
\* n > 10, gives the per-field change iff n >= 2 and always between the first
\* and the last record of the whole window; n = 0 gives the empty reply.
C8_WindowSummary ==
    HistoryQuery =>
        LET rs == QueriedRecords
            n == Len(rs)
            m == Min(n, DisplayCap)
        IN /\ n = 0 => (out.reply = "no_records" /\ out.shown = <<>> /\ out.deltas = <<>>
                        /\ out.total = 0)
           /\ n >= 1 =>
                 /\ out.reply = "history"
                 /\ Len(out.shown) = m
                 /\ \A i \in 1..m : out.shown[i] = rs[n - m + i]
                 /\ (out.total # 0) <=> (n > DisplayCap)
                 /\ n > DisplayCap => out.total - DisplayCap = n - DisplayCap
                 /\ (out.deltas # <<>>) <=> (n >= 2)
                 /\ n >= 2 => out.deltas = <<rs[n].weight - rs[1].weight,
                                             rs[n].waist - rs[1].waist,
                                             rs[n].hips - rs[1].hips,
                                             rs[n].chest - rs[1].chest>>

\* A window of twelve records: ten displayed, two omitted, the change taken
\* from the first of the twelve.
C8_Witness ==
    /\ HistoryQuery
    /\ out.total = DisplayCap + 2
    /\ Len(out.shown) = DisplayCap
    /\ out.deltas[1] # out.shown[DisplayCap].weight - out.shown[1].weight

(***************************************************************************)
(* Properties of the message handlers.                                     *)
(***************************************************************************)
\* Four numeric tokens, each inside its bounds.
WellFormed(text) ==
    /\ Len(text) = 4
    /\ \A i \in 1..4 : Float(text[i]).ok /\ ~Float(text[i]).nan
    /\ Float(text[1]).v \in WeightMin..WeightMax
    /\ Float(text[2]).v \in WaistMin..WaistMax
    /\ Float(text[3]).v \in HipsMin..HipsMax
    /\ Float(text[4]).v \in ChestMin..ChestMax

InBounds(r) ==
    /\ r.weight \in WeightMin..WeightMax
    /\ r.waist \in WaistMin..WaistMax
    /\ r.hips \in HipsMin..HipsMax
    /\ r.chest \in ChestMin..ChestMax

\* C9: a submission that is malformed or out of bounds is rejected before the
\* store is touched: no store operation, every document unchanged, the error
\* reply, no exception; and every record in a document is inside the bounds.
C9_ValidationFirst ==
    [][/\ (out'.routed = "process_measurements_input" /\ ~WellFormed(out'.text)) =>
             /\ out'.ops = {}
             /\ files' = files
             /\ out'.reply = "input_error"
       /\ \A u \in UserIds : \A i \in 1..Len(files'[u].records) :
             InBounds(LoadRecord(files'[u].records[i]))]_vars

\* A submission one tenth above the chest's upper bound was rejected.
C9_Witness ==
    /\ out.routed = "process_measurements_input"
    /\ out.text = <<"70.5", "80", "95", "200.1">>
    /\ out.reply = "input_error"

SenderOf(id) == CHOOSE s \in Senders : s.id = id

\* The gate's answer for the sender of the message handled in this step.
Denied == ~is_user_authorized(SenderOf(out'.sender), ADMIN_USER_ID).allow

Untouched ==
    /\ out'.ops = {}
    /\ files' = files
    /\ user_input_state' = user_input_state

\* C10 as claimed: nothing is done to the store or to the awaiting-input flag
\* for a sender the gate denies, and such a sender receives the access-denied
\* reply only.
C10_DeniedOnlyRefused ==
    [][Denied => (Untouched /\ out'.reply = "unauthorized")]_vars

\* C10: every store access and every change of the awaiting-input flag happens
\* in the handling of a message whose sender the gate allowed in that handling;
\* for a sender the gate denies nothing is touched, and the reply is the
\* access-denied one, or the sender's own identity for the /id command, which
\* has no gate.
C10_Gate ==
    [][/\ ~Untouched => (out'.gate = "allow" /\ ~Denied)
       /\ Denied =>
             /\ Untouched
             /\ \/ out'.gate = "deny" /\ out'.reply = "unauthorized"
                \/ out'.text = <<"/id">> /\ out'.gate = "none" /\ out'.reply = "id_info"]_vars

\* The add-measurement button pressed by a sender the gate denied.
C10_Witness ==
    /\ out.gate = "deny"
    /\ out.text = BTN_ADD
    /\ out.reply = "unauthorized"
    /\ out.sender \notin user_input_state

(***************************************************************************)
(* The awaiting-measurement flag.                                          *)
(***************************************************************************)
\* A step that handles a message, not one of the clock.
MessageHandled == now' = now

\* Was the message handled in this step a text message, not a command?
TextMessage == out'.text \notin Commands \cup {<<"/id">>}

\* The replies process_measurements_input ends with, the exception that
\* leaves it included.
SubmissionReplies == {"saved", "save_failed", "input_error", "raised"}

\* The flag of u is set only in the handling of u's add-measurement button.
FlagSetOnlyByAdd ==
    \A u \in UserIds :
        (u \notin user_input_state /\ u \in user_input_state') =>
            /\ out'.sender = u
            /\ out'.text = BTN_ADD
            /\ out'.routed = "add_measurements"

\* While the flag of the sender is set, a text message of the sender goes to
\* process_measurements_input, a menu button's text included; while it is not
\* set, the text is read as a menu command, whatever the flags of the others.
FlagRoutes ==
    (TextMessage /\ out'.gate = "allow") =>
        IF out'.sender \in user_input_state
        THEN /\ out'.routed = "process_measurements_input"
             /\ out'.reply \in SubmissionReplies
        ELSE /\ out'.routed = Route(out'.text)
             /\ out'.reply \notin SubmissionReplies \ {"raised"}

\* Handling a message changes no flag but the sender's, and a command changes
\* none.
FlagOfOthersKept ==
    /\ \A u \in UserIds \ {out'.sender} : (u \in user_input_state') <=> (u \in user_input_state)
    /\ ~TextMessage => user_input_state' = user_input_state

\* The handling of a submission ends with the flag of the sender cleared.
FlagCleared ==
    out'.routed = "process_measurements_input" => out'.sender \notin user_input_state'

\* C11: the awaiting-measurement flag of a user is set only by that user's
\* add-measurement command; while it is set the user's next text message is
\* routed to process_measurements_input, never read as a menu command; the
\* handling of that message clears the flag on every path, so one command
\* makes at most one message a submission; and the flag of one user never
\* changes the routing of another user's messages.
C11_FlagProtocol ==
    [][MessageHandled =>
          (FlagSetOnlyByAdd /\ FlagRoutes /\ FlagOfOthersKept /\ FlagCleared)]_vars

\* The part of C11 that does not depend on how a submission ends.
C11_FlagRouting ==
    [][MessageHandled => (FlagSetOnlyByAdd /\ FlagRoutes /\ FlagOfOthersKept)]_vars

\* A submission was handled, its handling ended in an exception, and the
\* sender is still waiting for measurements.
C11_StillWaiting ==
    /\ out.routed = "process_measurements_input"
    /\ out.reply = "raised"
    /\ out.sender \in user_input_state

====
